---- MODULE Spec2Model ----
(***************************************************************************)
(* Model of fruently's retry configuration, src/retry_conf.rs.             *)
(*                                                                         *)
(* RetryConf is a value type with three private fields and a builder API.  *)
(* Every method takes `self` by value: a builder call moves the value in   *)
(* and hands the updated value back, a consumption call (need_to_store,    *)
(* store_path, build) moves the value in and hands back only the result.   *)
(* The model keeps a small set of bindings (Slots); each binding is        *)
(* unbound, holds a live value, or holds a value that was moved into a     *)
(* consumer.  `hist` records, per binding, the builder calls that produced *)
(* its value, and `last` records the most recent call and what it          *)
(* returned.                                                               *)
(***************************************************************************)
EXTENDS Integers, Sequences, FiniteSets, TLC

VARIABLES conf, status, hist, origin, last, retry_count, interval, prev_interval

vars == <<conf, status, hist, origin, last, retry_count, interval, prev_interval>>

\* Bindings that may hold a RetryConf value.
Slots == {1, 2}

\* Bound on the builder calls recorded over all bindings.
MaxCalls == 3

\* Bound on the retry counter of the backoff specification.
MaxRetry == 12

----------------------------------------------------------------------------
(* Values of the field types.                                              *)

\* f64 as passed to multiplier(): an integer-valued finite number, NaN or
\* +infinity.
Fin(v) == [k |-> "fin", v |-> v]
NaN == [k |-> "nan", v |-> 0]
PosInf == [k |-> "inf", v |-> 0]

\* Option<PathBuf>.
None == [some |-> FALSE, path |-> ""]
Some(p) == [some |-> TRUE, path |-> p]

\* Arguments the callers of the policy specification pass.
MaxArgs == {0, 3}
MultiplierArgs == {Fin(-2), Fin(7), NaN}
PathArgs == {"/tmp/fruently.log", ""}

----------------------------------------------------------------------------
(* The methods of RetryConf, as functions of the value.                    *)

DefaultMaxThree == [max |-> 3, multiplier |-> Fin(5), store_file_path |-> None]

Default == [max |-> 10, multiplier |-> Fin(5), store_file_path |-> None]

RetryConf_new == Default

MaxResetsPath(self, max) ==
    [Default EXCEPT !.max = max, !.multiplier = self.multiplier]

MaxClamped(self, max) == [self EXCEPT !.max = IF max = 0 THEN 1 ELSE max]

RetryConf_max(self, max) == [self EXCEPT !.max = max]

MultiplierResetsMax(self, multiplier) ==
    [Default EXCEPT !.multiplier = multiplier,
                    !.store_file_path = self.store_file_path]

RetryConf_multiplier(self, multiplier) == [self EXCEPT !.multiplier = multiplier]

StoreFileKeepsFirst(self, path) ==
    IF self.store_file_path.some THEN self
    ELSE [self EXCEPT !.store_file_path = Some(path)]

RetryConf_store_file(self, path) == [self EXCEPT !.store_file_path = Some(path)]

NeedToStoreAlways(self) == TRUE

RetryConf_need_to_store(self) == self.store_file_path.some

RetryConf_store_path(self) == self.store_file_path

RetryConf_build(self) == <<self.max, self.multiplier>>

RetryConf_clone(self) == self

----------------------------------------------------------------------------
(* Calls on the bindings.                                                  *)

MaxCall(v) == [op |-> "max", max |-> v, multiplier |-> NaN, path |-> ""]
MultiplierCall(m) == [op |-> "multiplier", max |-> 0, multiplier |-> m, path |-> ""]
StoreFileCall(p) == [op |-> "store_file", max |-> 0, multiplier |-> NaN, path |-> p]

NoRet == [b |-> FALSE, path |-> None, pair |-> <<0, NaN>>]

Called(op, i, ret) == [op |-> op, slot |-> i, ret |-> ret]

RECURSIVE SumLen(_)
SumLen(S) ==
    IF S = {} THEN 0
    ELSE LET i == CHOOSE x \in S : TRUE IN Len(hist[i]) + SumLen(S \ {i})

\* Builder calls recorded so far, over all bindings.
TotalCalls == SumLen(Slots)

Frozen == UNCHANGED <<retry_count, interval, prev_interval>>

New(i) ==
    /\ status[i] = "none"
    /\ conf' = [conf EXCEPT ![i] = RetryConf_new]
    /\ status' = [status EXCEPT ![i] = "live"]
    /\ hist' = [hist EXCEPT ![i] = <<>>]
    /\ last' = Called("new", i, NoRet)
    /\ UNCHANGED origin
    /\ Frozen

Clone(i, j) ==
    /\ status[i] = "live"
    /\ status[j] = "none"
    /\ TotalCalls + Len(hist[i]) <= MaxCalls
    /\ conf' = [conf EXCEPT ![j] = RetryConf_clone(conf[i])]
    /\ status' = [status EXCEPT ![j] = "live"]
    /\ hist' = [hist EXCEPT ![j] = hist[i]]
    /\ origin' = [origin EXCEPT ![j] = i]
    /\ last' = Called("clone", j, NoRet)
    /\ Frozen

Builder(i, call, value) ==
    /\ status[i] = "live"
    /\ TotalCalls < MaxCalls
    /\ conf' = [conf EXCEPT ![i] = value]
    /\ hist' = [hist EXCEPT ![i] = Append(@, call)]
    /\ last' = Called(call.op, i, NoRet)
    /\ UNCHANGED <<status, origin>>
    /\ Frozen

MaxShared(i, v) ==
    /\ status[i] = "live"
    /\ TotalCalls < MaxCalls
    /\ conf' = [j \in Slots |->
                  IF status[j] = "live" THEN RetryConf_max(conf[j], v) ELSE conf[j]]
    /\ hist' = [hist EXCEPT ![i] = Append(@, MaxCall(v))]
    /\ last' = Called("max", i, NoRet)
    /\ UNCHANGED <<status, origin>>
    /\ Frozen

Max(i, v) == Builder(i, MaxCall(v), RetryConf_max(conf[i], v))

Multiplier(i, m) == Builder(i, MultiplierCall(m), RetryConf_multiplier(conf[i], m))

StoreFile(i, p) == Builder(i, StoreFileCall(p), RetryConf_store_file(conf[i], p))

\* A consumption call: the value is moved into the callee, the caller keeps
\* only the result.
Consume(i, op, ret) ==
    /\ status[i] = "live"
    /\ status' = [status EXCEPT ![i] = "moved"]
    /\ last' = Called(op, i, ret)
    /\ UNCHANGED <<conf, hist, origin>>
    /\ Frozen

NeedToStoreByRef(i) ==
    /\ status[i] = "live"
    /\ last' = Called("need_to_store", i,
                      [NoRet EXCEPT !.b = RetryConf_need_to_store(conf[i])])
    /\ UNCHANGED <<conf, status, hist, origin>>
    /\ Frozen

NeedToStore(i) ==
    Consume(i, "need_to_store", [NoRet EXCEPT !.b = RetryConf_need_to_store(conf[i])])

StorePath(i) ==
    Consume(i, "store_path", [NoRet EXCEPT !.path = RetryConf_store_path(conf[i])])

Build(i) ==
    Consume(i, "build", [NoRet EXCEPT !.pair = RetryConf_build(conf[i])])

NoInterval == [k |-> "none", m |-> 0, e |-> 0]

Init ==
    /\ conf = [i \in Slots |-> Default]
    /\ status = [i \in Slots |-> "none"]
    /\ hist = [i \in Slots |-> <<>>]
    /\ origin = [i \in Slots |-> 0]
    /\ last = Called("none", 0, NoRet)
    /\ retry_count = 0
    /\ interval = NoInterval
    /\ prev_interval = NoInterval

Next ==
    \/ \E i \in Slots : New(i)
    \/ \E i \in Slots, j \in Slots : Clone(i, j)
    \/ \E i \in Slots, v \in MaxArgs : Max(i, v)
    \/ \E i \in Slots, m \in MultiplierArgs : Multiplier(i, m)
    \/ \E i \in Slots, p \in PathArgs : StoreFile(i, p)
    \/ \E i \in Slots : NeedToStore(i)
    \/ \E i \in Slots : StorePath(i)
    \/ \E i \in Slots : Build(i)

Spec == Init /\ [][Next]_vars

----------------------------------------------------------------------------
(* The retry interval equation of the RetryConf documentation:             *)
(*   e ^ (multiplier + retry_counts) / 1000.0 / 60.0 / 60.0                *)
(* evaluated on f64.  A finite positive result is kept as a decimal        *)
(* floating-point number [m, e] of seven significant digits, standing for  *)
(* m * 10^(e - 6) with 10^6 <= m < 10^7; every operation truncates to      *)
(* seven digits, a relative error of at most 10^-6 per operation, so the   *)
(* results agree with f64's to four digits.  f64's range is kept: a result *)
(* above the largest finite f64 is +infinity, one below half the smallest  *)
(* subnormal is zero, and a result below the smallest normal number is     *)
(* marked "sub" (f64 keeps fewer digits there than the model does).        *)

Dec(m, e) == [m |-> m, e |-> e]

\* e and 1/e to seven digits.
EulerE == Dec(2718282, 0)
EulerInv == Dec(3678794, -1)
DecOne == Dec(1000000, 0)

\* f64::MAX, f64::MIN_POSITIVE and half the smallest subnormal.
F64Max == Dec(1797693, 308)
F64MinNormal == Dec(2225074, -308)
F64HalfMinSub == Dec(2470328, -324)

DecLt(a, b) == a.e < b.e \/ (a.e = b.e /\ a.m < b.m)

RECURSIVE Norm(_, _)
Norm(m, e) ==
    IF m >= 10000000 THEN Norm(m \div 10, e + 1)
    ELSE IF m < 1000000 THEN Norm(m * 10, e - 1)
    ELSE Dec(m, e)

\* a * b: the mantissas are split in two so that no product leaves 32 bits.
MulDec(a, b) ==
    LET ah == a.m \div 1000
        al == a.m % 1000
        bh == b.m \div 1000
        bl == b.m % 1000
    IN Norm(ah * bh + (ah * bl + al * bh + (al * bl) \div 1000) \div 1000,
            a.e + b.e)

RECURSIVE PowDec(_, _)
PowDec(b, n) ==
    IF n = 0 THEN DecOne
    ELSE LET h == PowDec(b, n \div 2)
             sq == MulDec(h, h)
         IN IF n % 2 = 1 THEN MulDec(sq, b) ELSE sq

RECURSIVE DivDec(_, _)
DivDec(d, k) ==
    IF k % 10 = 0 THEN DivDec(Dec(d.m, d.e - 1), k \div 10)
    ELSE Norm((d.m * 100) \div k, d.e - 2)

\* Results of the f64 operations.
Num(d) == [k |-> "num", m |-> d.m, e |-> d.e]
ResNaN == [k |-> "nan", m |-> 0, e |-> 0]
ResInf == [k |-> "inf", m |-> 0, e |-> 0]
ResZero == [k |-> "zero", m |-> 0, e |-> 0]

\* The f64 nearest to a positive real d.
F64Round(d) ==
    IF DecLt(F64Max, d) THEN ResInf
    ELSE IF DecLt(d, F64HalfMinSub) THEN ResZero
    ELSE IF DecLt(d, F64MinNormal) THEN [k |-> "sub", m |-> d.m, e |-> d.e]
    ELSE Num(d)

\* multiplier + retry_counts as f64 (exact for the integers of the model).
F64Add(x, n) == IF x.k = "fin" THEN Fin(x.v + n) ELSE x

F64Exp(x) ==
    CASE x.k = "nan" -> ResNaN
      [] x.k = "inf" -> ResInf
      [] x.k = "fin" ->
           F64Round(IF x.v >= 0 THEN PowDec(EulerE, x.v) ELSE PowDec(EulerInv, -x.v))

F64Div(r, k) ==
    IF r.k \in {"num", "sub"} THEN F64Round(DivDec(Dec(r.m, r.e), k)) ELSE r

\* a > b on f64 results (none is negative): false whenever one is NaN.
F64Gt(a, b) ==
    CASE a.k = "nan" \/ b.k = "nan" -> FALSE
      [] a.k = "inf" -> b.k # "inf"
      [] a.k = "zero" -> FALSE
      [] OTHER -> b.k = "zero"
                    \/ (b.k \in {"num", "sub"} /\ DecLt(Dec(b.m, b.e), Dec(a.m, a.e)))

IntervalNoMinutes(multiplier, retry_counts) ==
    F64Div(F64Div(F64Exp(F64Add(multiplier, retry_counts)), 1000), 60)

IntervalShrinking(multiplier, retry_counts) ==
    F64Div(F64Div(F64Div(F64Exp(F64Add(multiplier, 0 - retry_counts)), 1000), 60), 60)

Interval(multiplier, retry_counts) ==
    F64Div(F64Div(F64Div(F64Exp(F64Add(multiplier, retry_counts)), 1000), 60), 60)

\* Arguments of the backoff specification.
BackoffMaxArgs == {0, 10}
BackoffMultiplierArgs ==
    {Fin(-800), Fin(-740), Fin(-700), Fin(-2), Fin(0), Fin(5), Fin(9), Fin(700),
     Fin(1000), NaN, PosInf}

\* The caller schedules the next retry: the equation at the next count, from
\* the pair build() returned.
RetryStep ==
    /\ last.op = "build"
    /\ retry_count < MaxRetry
    /\ retry_count' = retry_count + 1
    /\ prev_interval' = interval
    /\ interval' = Interval(last.ret.pair[2], retry_count + 1)
    /\ UNCHANGED <<conf, status, hist, origin, last>>

\* A policy configured by max(v).multiplier(m), not yet consumed.
InitBackoff ==
    \E v \in BackoffMaxArgs, m \in BackoffMultiplierArgs :
        /\ conf = [i \in Slots |->
                     IF i = 1 THEN RetryConf_multiplier(RetryConf_max(RetryConf_new, v), m)
                     ELSE Default]
        /\ status = [i \in Slots |-> IF i = 1 THEN "live" ELSE "none"]
        /\ hist = [i \in Slots |->
                     IF i = 1 THEN <<MaxCall(v), MultiplierCall(m)>> ELSE <<>>]
        /\ origin = [i \in Slots |-> 0]
        /\ last = Called("multiplier", 1, NoRet)
        /\ retry_count = 0
        /\ interval = NoInterval
        /\ prev_interval = NoInterval

NextBackoff ==
    \/ Build(1)
    \/ RetryStep

SpecBackoff == InitBackoff /\ [][NextBackoff]_vars

----------------------------------------------------------------------------
(* What the recorded builder calls say a policy must hold.                 *)

Consumers == {"need_to_store", "store_path", "build"}

CallsOf(h, op) == SelectSeq(h, LAMBDA c : c.op = op)
WasCalled(h, op) == CallsOf(h, op) # <<>>
LastCallOf(h, op) == CallsOf(h, op)[Len(CallsOf(h, op))]

ApplyCall(self, c) ==
    CASE c.op = "max" -> RetryConf_max(self, c.max)
      [] c.op = "multiplier" -> RetryConf_multiplier(self, c.multiplier)
      [] c.op = "store_file" -> RetryConf_store_file(self, c.path)

RECURSIVE ApplyFrom(_, _, _)
ApplyFrom(self, h, k) ==
    IF k > Len(h) THEN self ELSE ApplyFrom(ApplyCall(self, h[k]), h, k + 1)

\* The policy a fresh policy becomes under the calls of h, in order.
Apply(h) == ApplyFrom(RetryConf_new, h, 1)

\* h with the calls at k and k + 1 exchanged.
Swap(h, k) ==
    [n \in 1..Len(h) |-> IF n = k THEN h[k + 1] ELSE IF n = k + 1 THEN h[k] ELSE h[n]]

\* C1: a policy from new() with no builder call applied has max = 10,
\* multiplier = 5.0 and no store path: build() returns (10, 5.0),
\* need_to_store() returns false and store_path() returns None.
C1_DefaultPolicy ==
    /\ \A i \in Slots :
         (status[i] # "none" /\ hist[i] = <<>>) =>
            /\ RetryConf_build(conf[i]) = <<10, Fin(5)>>
            /\ RetryConf_need_to_store(conf[i]) = FALSE
            /\ RetryConf_store_path(conf[i]) = None
    /\ (last.op \in Consumers /\ hist[last.slot] = <<>>) =>
          /\ last.op = "build" => last.ret.pair = <<10, Fin(5)>>
          /\ last.op = "need_to_store" => last.ret.b = FALSE
          /\ last.op = "store_path" => last.ret.path = None

C1_Witness ==
    /\ last.op = "build"
    /\ hist[last.slot] = <<>>
    /\ last.ret.pair = <<10, Fin(5)>>

\* C2: after any sequence of builder calls on a fresh policy, build() returns
\* for max and for multiplier the value of the last call that set the field, or
\* the default (10, 5.0) when the field was never set; exchanging two
\* neighbouring calls on different fields yields an equal policy, so the result
\* does not depend on how calls on different fields are interleaved.
C2_LastValueWins ==
    /\ last.op = "build" =>
          LET h == hist[last.slot] IN
          /\ last.ret.pair[1] =
                IF WasCalled(h, "max") THEN LastCallOf(h, "max").max ELSE 10
          /\ last.ret.pair[2] =
                IF WasCalled(h, "multiplier")
                THEN LastCallOf(h, "multiplier").multiplier ELSE Fin(5)
    /\ \A i \in Slots :
         status[i] # "none" =>
            \A k \in 1..(Len(hist[i]) - 1) :
               hist[i][k].op # hist[i][k + 1].op =>
                  Apply(Swap(hist[i], k)) = conf[i]

C2_Witness ==
    /\ last.op = "build"
    /\ LET h == hist[last.slot] IN
         /\ Len(h) = 3
         /\ h[1].op = "max" /\ h[2].op = "multiplier" /\ h[3].op = "max"
         /\ h[1].max # h[3].max
         /\ last.ret.pair = <<h[3].max, h[2].multiplier>>

\* C3: need_to_store() returns true if and only if store_file was called at
\* least once in the sequence of builder calls that made the policy; it is
\* false after any sequence of max and multiplier calls only.
C3_NeedToStoreIffStoreFile ==
    /\ \A i \in Slots :
         status[i] # "none" =>
            (RetryConf_need_to_store(conf[i]) <=> WasCalled(hist[i], "store_file"))
    /\ last.op = "need_to_store" =>
          (last.ret.b <=> WasCalled(hist[last.slot], "store_file"))

C3_Witness ==
    /\ last.op = "need_to_store"
    /\ last.ret.b = TRUE
    /\ LET h == hist[last.slot] IN
         Len(h) = 3 /\ h[1].op = "max" /\ h[2].op = "store_file" /\ h[3].op = "multiplier"

\* C4: store_path() returns Some(p) for the path p of the last store_file
\* call, unaltered, whatever max or multiplier calls came before or after it,
\* and None exactly when store_file was never called.
C4_StorePathIsLastStoreFile ==
    last.op = "store_path" =>
       LET h == hist[last.slot] IN
       /\ WasCalled(h, "store_file") =>
             last.ret.path = Some(LastCallOf(h, "store_file").path)
       /\ ~WasCalled(h, "store_file") <=> last.ret.path = None

C4_Witness ==
    /\ last.op = "store_path"
    /\ LET h == hist[last.slot] IN
         /\ Len(h) = 3
         /\ h[1].op = "store_file" /\ h[2].op = "store_file" /\ h[3].op = "max"
         /\ h[1].path # h[2].path
         /\ last.ret.path = Some(h[2].path)

\* C5: no call rejects an argument: on a live policy every builder call is
\* possible with every argument (max = 0, a negative or NaN multiplier, an
\* empty path) and every consumption call is possible; the argument is stored
\* as given, and build() returns the stored pair unclamped, so max(0) followed
\* by build() returns 0.
C5_AcceptsEveryInput ==
    /\ \A i \in Slots :
         (status[i] = "live" /\ TotalCalls < MaxCalls) =>
            /\ \A v \in MaxArgs : ENABLED Max(i, v)
            /\ \A m \in MultiplierArgs : ENABLED Multiplier(i, m)
            /\ \A p \in PathArgs : ENABLED StoreFile(i, p)
    /\ \A i \in Slots :
         status[i] = "live" =>
            ENABLED NeedToStore(i) /\ ENABLED StorePath(i) /\ ENABLED Build(i)
    /\ \A i \in Slots :
         (status[i] # "none" /\ hist[i] # <<>>) =>
            LET c == hist[i][Len(hist[i])] IN
            /\ c.op = "max" => conf[i].max = c.max
            /\ c.op = "multiplier" => conf[i].multiplier = c.multiplier
            /\ c.op = "store_file" => conf[i].store_file_path = Some(c.path)
    /\ (last.op = "build" /\ WasCalled(hist[last.slot], "max")
          /\ LastCallOf(hist[last.slot], "max").max = 0) =>
          last.ret.pair[1] = 0

C5_Witness ==
    /\ last.op = "build"
    /\ last.ret.pair = <<0, Fin(-2)>>
    /\ conf[last.slot].store_file_path = Some("")

C7_NoSharedState ==
    [][\A i \in Slots :
         last'.slot # i => (conf'[i] = conf[i] /\ status'[i] = status[i])]_vars

C7_Witness ==
    /\ origin[2] = 1
    /\ status[1] = "live"
    /\ status[2] = "live"
    /\ conf[1].max # conf[2].max
    /\ Len(hist[1]) > Len(hist[2])

\* C10: once store_file was applied to a policy, no builder call returns it to
\* the state without a store path, and a clone of it has a store path too: the
\* path may be replaced, never cleared.
C10_StorePathNeverCleared ==
    [][\A i \in Slots :
         (status[i] # "none" /\ RetryConf_need_to_store(conf[i])) =>
            /\ RetryConf_need_to_store(conf'[i])
            /\ \A j \in Slots :
                 (origin'[j] = i /\ origin[j] # i) => RetryConf_need_to_store(conf'[j])]_vars

C10_Witness ==
    \E i \in Slots :
       /\ status[i] = "live"
       /\ Len(hist[i]) = 3
       /\ hist[i][1].op = "store_file"
       /\ hist[i][2].op = "max"
       /\ hist[i][3].op = "multiplier"
       /\ RetryConf_need_to_store(conf[i])

----------------------------------------------------------------------------
(* The retry interval.                                                     *)

\* |r - target| <= tol, all in units of 10^-7, for a result r below 100.
Within(r, target, tol) ==
    /\ r.k = "num"
    /\ r.e \in {-1, 0}
    /\ LET x == IF r.e = -1 THEN r.m ELSE r.m * 10
       IN x - target <= tol /\ target - x <= tol

\* C8: with the pair build() returns for the default multiplier 5.0, the
\* interval exp(multiplier + retry_count) / 1000 / 60 / 60 is, within 0.001,
\* 0.9081 at retry_count 10, 2.4684 at 11 and 6.7097 at 12.
C8_IntervalFixedPoints ==
    (last.op = "build" /\ last.ret.pair[2] = Fin(5)) =>
       /\ retry_count = 10 => Within(interval, 9081000, 10000)
       /\ retry_count = 11 => Within(interval, 24684000, 10000)
       /\ retry_count = 12 => Within(interval, 67097000, 10000)

C8_Witness ==
    /\ last.op = "build"
    /\ last.ret.pair[2] = Fin(5)
    /\ retry_count = 12
    /\ Within(interval, 67097000, 10000)
    /\ Within(prev_interval, 24684000, 10000)

\* C9 as stated: for every multiplier and every retry count n,
\* interval(n + 1) > interval(n).
C9_StrictlyIncreasingAlways ==
    retry_count >= 2 => F64Gt(interval, prev_interval)

\* C9, amended: interval(n + 1) > interval(n) whenever interval(n) is a
\* positive normal f64 and interval(n + 1) is finite; when the exponential
\* overflows both are +infinity, when it underflows both are zero, and with a
\* NaN multiplier both are NaN, and then neither exceeds the other.
C9_StrictlyIncreasingInRange ==
    /\ (retry_count >= 2 /\ prev_interval.k = "num" /\ interval.k = "num") =>
          F64Gt(interval, prev_interval)
    /\ (retry_count >= 2 /\ prev_interval.k \in {"inf", "zero", "nan"}
          /\ interval.k = prev_interval.k) =>
          ~F64Gt(interval, prev_interval)

C9_Witness ==
    /\ retry_count = 12
    /\ last.ret.pair[2] = Fin(-2)
    /\ prev_interval.k = "num"
    /\ interval.k = "num"
    /\ F64Gt(interval, prev_interval)

====
